---- MODULE Spec2Model ----
(***************************************************************************)
(* Blogicum: visibility policy, authorization policy and paginated post    *)
(* listings (blog/views.py, blog/mixin.py, blog/models.py).                *)
(*                                                                         *)
(* The store holds categories, posts and comments.  Every request handler  *)
(* is one action: it reads the store, possibly changes it, and leaves its  *)
(* answer in `response`.  Requests are POSTs with a valid form for the     *)
(* create/edit/delete views and GETs for the detail and listing views.     *)
(* The class names Comment / CommentForm used by views.py and mixin.py are *)
(* read as the model Comments and the form CommentsForm of models.py and   *)
(* forms.py.                                                               *)
(***************************************************************************)
EXTENDS Integers, Sequences, FiniteSets, TLC

\* ---- bounds of the model ------------------------------------------------
MaxPosts == 2
MaxComments == 1
MaxTime == 2
MaxN == 21

\* ---- program constants --------------------------------------------------
paginate_by == 10

\* ---- value sets ---------------------------------------------------------
Users == {"u1", "u2"}
Anon == "AnonymousUser"
Actors == Users \cup {Anon}
Usernames == Users \cup {"nobody"}
Slugs == {"c1", "c2"}
Locations == {"l1"}
Null == "None"
Texts == {"t1", "t2"}
PubDates == 1..MaxTime
PostPks == 1..MaxPosts
CommentPks == 1..MaxComments

\* The `page` query parameter is text: a sequence of characters, <<>> when
\* the parameter is absent.
Digits == {"0", "1", "2", "3", "4", "5", "6", "7", "8", "9"}
PageParams == {<<>>, <<"1">>, <<"2">>}
PageParamsWide == {<<>>, <<"a">>, <<"l", "a", "s", "t">>, <<"0">>, <<"1">>,
                   <<"2">>, <<"3">>, <<"4">>, <<"9", "9">>}

VARIABLES
    users,          \* the usernames of the User rows
    categories,     \* slug -> [is_published], the Category rows
    locations,      \* the names of the Location rows
    posts,          \* pk -> [author, is_published, pub_date, category, location]
    comments,       \* pk -> [post, author, text]
    nextPostPk,     \* the next primary key the store hands to a post
    nextCommentPk,  \* the next primary key the store hands to a comment
    now,            \* django.utils.timezone.now()
    response        \* the answer to the request handled by the last step

vars == <<users, categories, locations, posts, comments, nextPostPk, nextCommentPk,
          now, response>>
store == <<users, categories, locations, posts, comments, nextPostPk, nextCommentPk>>

\* ---- responses ----------------------------------------------------------
Resp(view, actor, post_pk, comment_pk, name, page, kind, target, items, number, pages) ==
    [view |-> view, actor |-> actor, post_pk |-> post_pk, comment_pk |-> comment_pk,
     name |-> name, page |-> page, kind |-> kind, target |-> target,
     items |-> items, number |-> number, num_pages |-> pages]

NoResponse == Resp("None", Anon, 0, 0, "", <<>>, "None", 0, <<>>, 0, 0)

\* A table without rows.
NoRows == [pk \in {} |-> Null]

\* ---- blog/mixin.py ------------------------------------------------------
is_authenticated(user) == user \in users

\* PostVisibilityMixin.check_post_visibility.  post.category.is_published on a
\* post whose category is None raises AttributeError.
check_post_visibility_NoAuthorBypass(post, user) ==
    IF ~post.is_published \/ post.pub_date > now THEN "False"
    ELSE IF post.category = Null THEN "AttributeError"
    ELSE IF ~categories[post.category].is_published THEN "False"
    ELSE "True"

check_post_visibility_StrictDate(post, user) ==
    IF user = post.author THEN "True"
    ELSE IF ~post.is_published \/ post.pub_date >= now THEN "False"
    ELSE IF post.category = Null THEN "AttributeError"
    ELSE IF ~categories[post.category].is_published THEN "False"
    ELSE "True"

check_post_visibility(post, user) ==
    IF user = post.author THEN "True"
    ELSE IF ~post.is_published \/ post.pub_date > now THEN "False"
    ELSE IF post.category = Null THEN "AttributeError"
    ELSE IF ~categories[post.category].is_published THEN "False"
    ELSE "True"

\* AuthorRequiredMixin.test_func, on an object that get_object() found.
test_func_AlwaysTrue(user, obj) == TRUE

test_func(user, obj) == user = obj.author

\* SinglePostObjectMixin.get_post: the post, or Http404.
PostExists(post_pk) == post_pk \in DOMAIN posts

\* SingleCommentObjectMixin.get_comment: Comment with id=comment_pk and
\* post__pk=post_pk, or Http404.
CommentExists(post_pk, comment_pk) ==
    /\ comment_pk \in DOMAIN comments
    /\ comments[comment_pk].post = post_pk

Init ==
    /\ users = Users
    /\ locations = Locations
    /\ categories = [s \in Slugs |-> [is_published |-> (s = "c1")]]
    /\ posts = NoRows
    /\ comments = NoRows
    /\ nextPostPk = 1
    /\ nextCommentPk = 1
    /\ now = 1
    /\ response = NoResponse

\* ---- PostDetail ---------------------------------------------------------
\* PostDetail.get_object: Http404 for an unknown pk, then the visibility check.
PostDetail_get_object(user, post_pk) ==
    IF ~PostExists(post_pk) THEN "NotFound"
    ELSE LET v == check_post_visibility(posts[post_pk], user)
         IN  IF v = "AttributeError" THEN "ServerError"
             ELSE IF v = "False" THEN "NotFound"
             ELSE "OK"

PostDetail(user, post_pk) ==
    /\ response' = Resp("PostDetail", user, post_pk, 0, "", <<>>,
                        PostDetail_get_object(user, post_pk),
                        IF PostDetail_get_object(user, post_pk) = "OK" THEN post_pk ELSE 0,
                        <<>>, 0, 0)
    /\ UNCHANGED <<store, now>>

\* ---- listings: ordering, Paginator, ListView pagination ------------------
\* order_by('-pub_date') over a set of post pks: newest first, rows of equal
\* pub_date in primary-key order.
Before_Ascending(p, q) ==
    \/ posts[p].pub_date < posts[q].pub_date
    \/ posts[p].pub_date = posts[q].pub_date /\ p < q

Before(p, q) ==
    \/ posts[p].pub_date > posts[q].pub_date
    \/ posts[p].pub_date = posts[q].pub_date /\ p < q

RECURSIVE order_by_pub_date_desc(_)
order_by_pub_date_desc(S) ==
    IF S = {} THEN <<>>
    ELSE LET first == CHOOSE p \in S : \A q \in S \ {p} : Before(p, q)
         IN  <<first>> \o order_by_pub_date_desc(S \ {first})

\* int(page): the number a text denotes, or "ValueError".
DigitVal == [c \in Digits |->
    CASE c = "0" -> 0 [] c = "1" -> 1 [] c = "2" -> 2 [] c = "3" -> 3 [] c = "4" -> 4
      [] c = "5" -> 5 [] c = "6" -> 6 [] c = "7" -> 7 [] c = "8" -> 8 [] c = "9" -> 9]

RECURSIVE DecimalValue(_)
DecimalValue(s) ==
    IF s = <<>> THEN 0
    ELSE DecimalValue(SubSeq(s, 1, Len(s) - 1)) * 10 + DigitVal[s[Len(s)]]

IsInt(s) == s # <<>> /\ \A i \in 1..Len(s) : s[i] \in Digits

\* filter_published_posts: is_published=True, pub_date__lte=now().
filter_published_posts(S) ==
    {p \in S : posts[p].is_published /\ posts[p].pub_date <= now}

\* Paginator.num_pages with orphans = 0 and allow_empty_first_page = True.
num_pages_Floor(count, per_page) ==
    IF count = 0 THEN 1 ELSE IF count < per_page THEN 1 ELSE count \div per_page

num_pages(count, per_page) ==
    IF count = 0 THEN 1 ELSE (count + per_page - 1) \div per_page

\* Paginator.page(number) for a valid number: object_list[bottom:top].
page_items(list, number, per_page) ==
    LET bottom == (number - 1) * per_page
        top    == IF bottom + per_page >= Len(list) THEN Len(list) ELSE bottom + per_page
    IN  SubSeq(list, bottom + 1, top)

Page(list, number, per_page) ==
    [number |-> number, items |-> page_items(list, number, per_page),
     num_pages |-> num_pages(Len(list), per_page)]

\* get_paginated_page: PageNotAnInteger -> page 1, EmptyPage -> the last page.
get_paginated_page(page, list, per_page) ==
    IF ~IsInt(page) THEN Page(list, 1, per_page)
    ELSE IF DecimalValue(page) < 1 \/ DecimalValue(page) > num_pages(Len(list), per_page)
         THEN Page(list, num_pages(Len(list), per_page), per_page)
    ELSE Page(list, DecimalValue(page), per_page)

\* ListView.get_context_data with paginate_by set: MultipleObjectMixin
\* paginates the queryset itself before the view's own code runs.  TRUE when
\* paginate_queryset raises Http404: the parameter is neither absent, "last"
\* nor an integer, or it names no page.
paginate_queryset_raises(page, list, page_size) ==
    IF page = <<>> THEN FALSE
    ELSE IF ~IsInt(page) THEN page # <<"l", "a", "s", "t">>
    ELSE DecimalValue(page) < 1 \/ DecimalValue(page) > num_pages(Len(list), page_size)

\* The get() of a ListView whose get_context_data calls super() and then
\* get_paginated_page on a fresh get_queryset().
ListResponse(view, user, name, page, found, list) ==
    IF ~found
    THEN Resp(view, user, 0, 0, name, page, "NotFound", 0, <<>>, 0, 0)
    ELSE IF paginate_queryset_raises(page, list, paginate_by)
    THEN Resp(view, user, 0, 0, name, page, "NotFound", 0, <<>>, 0, 0)
    ELSE LET pg == get_paginated_page(page, list, paginate_by)
         IN  Resp(view, user, 0, 0, name, page, "OK", 0, pg.items, pg.number, pg.num_pages)

\* Index.get_queryset
Index_get_queryset_NoCategoryFilter ==
    order_by_pub_date_desc(filter_published_posts(DOMAIN posts))

Index_get_queryset ==
    order_by_pub_date_desc(filter_published_posts(
        {p \in DOMAIN posts : /\ posts[p].category # Null
                              /\ categories[posts[p].category].is_published}))

Index(user, page) ==
    /\ response' = ListResponse("Index", user, "", page, TRUE, Index_get_queryset)
    /\ UNCHANGED <<store, now>>

\* CategoryPosts.get_queryset: get_object_or_404(Category, slug, is_published=True)
CategoryPosts_found_AnyCategory(slug) == slug \in DOMAIN categories

CategoryPosts_found(slug) ==
    slug \in DOMAIN categories /\ categories[slug].is_published

CategoryPosts_get_queryset(slug) ==
    order_by_pub_date_desc(filter_published_posts(
        {p \in DOMAIN posts : posts[p].category = slug}))

CategoryPosts(user, slug, page) ==
    /\ response' = ListResponse("CategoryPosts", user, slug, page,
                                CategoryPosts_found(slug),
                                CategoryPosts_get_queryset(slug))
    /\ UNCHANGED <<store, now>>

\* ProfileView.get_queryset: get_object_or_404(User, username)
ProfileView_found(username) == username \in users

ProfileView_get_queryset(user, username) ==
    LET own == {p \in DOMAIN posts : posts[p].author = username}
    IN  order_by_pub_date_desc(
            IF user # username THEN filter_published_posts(own) ELSE own)

ProfileView(user, username, page) ==
    /\ response' = ListResponse("ProfileView", user, username, page,
                                ProfileView_found(username),
                                ProfileView_get_queryset(user, username))
    /\ UNCHANGED <<store, now>>

\* ---- create / edit / delete views ----------------------------------------
\* Every get_success_url of views.py returns redirect(...), a response object,
\* where the generic views expect a URL: after the save or the delete,
\* HttpResponseRedirect(<response object>) raises TypeError.
AfterSuccess == "ServerError"

PostRow(author, is_published, pub_date, category, location) ==
    [author |-> author, is_published |-> is_published,
     pub_date |-> pub_date, category |-> category, location |-> location]

MutResp(view, user, post_pk, comment_pk, kind, target) ==
    Resp(view, user, post_pk, comment_pk, "", <<>>, kind, target, <<>>, 0, 0)

\* CreatePost: LoginRequiredMixin, then form_valid sets the author and saves.
CreatePost(user, is_published, pub_date, category, location) ==
    IF ~is_authenticated(user)
    THEN /\ response' = MutResp("CreatePost", user, 0, 0, "RedirectLogin", 0)
         /\ UNCHANGED <<store, now>>
    ELSE /\ nextPostPk <= MaxPosts
         /\ category \in DOMAIN categories
         /\ location \in locations \cup {Null}
         /\ posts' = [p \in DOMAIN posts \cup {nextPostPk} |->
                        IF p = nextPostPk
                        THEN PostRow(user, is_published, pub_date, category, location)
                        ELSE posts[p]]
         /\ nextPostPk' = nextPostPk + 1
         /\ response' = MutResp("CreatePost", user, nextPostPk, 0, AfterSuccess, 0)
         /\ UNCHANGED <<users, locations, categories, comments, nextCommentPk, now>>

\* EditPost: LoginRequiredMixin and AuthorRequiredMixin both deny through
\* EditPost.handle_no_permission, which redirects to the post's detail page
\* (get_object raises Http404 for an unknown pk).
EditPost(user, post_pk, is_published, pub_date, category, location) ==
    IF ~PostExists(post_pk)
    THEN /\ response' = MutResp("EditPost", user, post_pk, 0, "NotFound", 0)
         /\ UNCHANGED <<store, now>>
    ELSE IF ~is_authenticated(user) \/ ~test_func(user, posts[post_pk])
    THEN /\ response' = MutResp("EditPost", user, post_pk, 0, "RedirectDetail", post_pk)
         /\ UNCHANGED <<store, now>>
    ELSE /\ category \in DOMAIN categories
         /\ location \in locations \cup {Null}
         /\ posts' = [posts EXCEPT ![post_pk] =
                        PostRow(posts[post_pk].author, is_published, pub_date, category,
                                location)]
         /\ response' = MutResp("EditPost", user, post_pk, 0, AfterSuccess, 0)
         /\ UNCHANGED <<users, locations, categories, comments, nextPostPk, nextCommentPk, now>>

\* AccessMixin.handle_no_permission, which the other three views inherit:
\* PermissionDenied for an authenticated user, a redirect to the login page
\* for an anonymous one.
handle_no_permission(user) ==
    IF is_authenticated(user) THEN "Forbidden" ELSE "RedirectLogin"

\* DeletePostView; Comments.post is on_delete=CASCADE.
DeletePost(user, post_pk) ==
    IF ~is_authenticated(user)
    THEN /\ response' = MutResp("DeletePost", user, post_pk, 0, handle_no_permission(user), 0)
         /\ UNCHANGED <<store, now>>
    ELSE IF ~PostExists(post_pk)
    THEN /\ response' = MutResp("DeletePost", user, post_pk, 0, "NotFound", 0)
         /\ UNCHANGED <<store, now>>
    ELSE IF ~test_func(user, posts[post_pk])
    THEN /\ response' = MutResp("DeletePost", user, post_pk, 0, handle_no_permission(user), 0)
         /\ UNCHANGED <<store, now>>
    ELSE /\ posts' = [p \in DOMAIN posts \ {post_pk} |-> posts[p]]
         /\ comments' = [c \in {d \in DOMAIN comments : comments[d].post # post_pk} |->
                           comments[c]]
         /\ response' = MutResp("DeletePost", user, post_pk, 0, AfterSuccess, 0)
         /\ UNCHANGED <<users, locations, categories, nextPostPk, nextCommentPk, now>>

AddComment_ChecksVisibility(user, post_pk, text) ==
    IF ~is_authenticated(user)
    THEN /\ response' = MutResp("AddComment", user, post_pk, 0, "RedirectLogin", 0)
         /\ UNCHANGED <<store, now>>
    ELSE IF ~PostExists(post_pk) \/ check_post_visibility(posts[post_pk], user) # "True"
    THEN /\ response' = MutResp("AddComment", user, post_pk, 0, "NotFound", 0)
         /\ UNCHANGED <<store, now>>
    ELSE /\ nextCommentPk <= MaxComments
         /\ comments' = [c \in DOMAIN comments \cup {nextCommentPk} |->
                           IF c = nextCommentPk
                           THEN [post |-> post_pk, author |-> user, text |-> text]
                           ELSE comments[c]]
         /\ nextCommentPk' = nextCommentPk + 1
         /\ response' = MutResp("AddComment", user, post_pk, nextCommentPk, AfterSuccess, 0)
         /\ UNCHANGED <<users, locations, categories, posts, nextPostPk, now>>

\* AddCommentView.form_valid: get_object_or_404(Post, pk), then author and
\* post are set and the comment is saved.
AddComment(user, post_pk, text) ==
    IF ~is_authenticated(user)
    THEN /\ response' = MutResp("AddComment", user, post_pk, 0, "RedirectLogin", 0)
         /\ UNCHANGED <<store, now>>
    ELSE IF ~PostExists(post_pk)
    THEN /\ response' = MutResp("AddComment", user, post_pk, 0, "NotFound", 0)
         /\ UNCHANGED <<store, now>>
    ELSE /\ nextCommentPk <= MaxComments
         /\ comments' = [c \in DOMAIN comments \cup {nextCommentPk} |->
                           IF c = nextCommentPk
                           THEN [post |-> post_pk, author |-> user, text |-> text]
                           ELSE comments[c]]
         /\ nextCommentPk' = nextCommentPk + 1
         /\ response' = MutResp("AddComment", user, post_pk, nextCommentPk, AfterSuccess, 0)
         /\ UNCHANGED <<users, locations, categories, posts, nextPostPk, now>>

\* EditCommentView
EditComment(user, post_pk, comment_pk, text) ==
    IF ~is_authenticated(user)
    THEN /\ response' = MutResp("EditComment", user, post_pk, comment_pk,
                                handle_no_permission(user), 0)
         /\ UNCHANGED <<store, now>>
    ELSE IF ~CommentExists(post_pk, comment_pk)
    THEN /\ response' = MutResp("EditComment", user, post_pk, comment_pk, "NotFound", 0)
         /\ UNCHANGED <<store, now>>
    ELSE IF ~test_func(user, comments[comment_pk])
    THEN /\ response' = MutResp("EditComment", user, post_pk, comment_pk,
                                handle_no_permission(user), 0)
         /\ UNCHANGED <<store, now>>
    ELSE /\ comments' = [comments EXCEPT ![comment_pk].text = text]
         /\ response' = MutResp("EditComment", user, post_pk, comment_pk, AfterSuccess, 0)
         /\ UNCHANGED <<users, locations, categories, posts, nextPostPk, nextCommentPk, now>>

\* DeleteCommentView
DeleteComment(user, post_pk, comment_pk) ==
    IF ~is_authenticated(user)
    THEN /\ response' = MutResp("DeleteComment", user, post_pk, comment_pk,
                                handle_no_permission(user), 0)
         /\ UNCHANGED <<store, now>>
    ELSE IF ~CommentExists(post_pk, comment_pk)
    THEN /\ response' = MutResp("DeleteComment", user, post_pk, comment_pk, "NotFound", 0)
         /\ UNCHANGED <<store, now>>
    ELSE IF ~test_func(user, comments[comment_pk])
    THEN /\ response' = MutResp("DeleteComment", user, post_pk, comment_pk,
                                handle_no_permission(user), 0)
         /\ UNCHANGED <<store, now>>
    ELSE /\ comments' = [c \in DOMAIN comments \ {comment_pk} |-> comments[c]]
         /\ response' = MutResp("DeleteComment", user, post_pk, comment_pk, AfterSuccess, 0)
         /\ UNCHANGED <<users, locations, categories, posts, nextPostPk, nextCommentPk, now>>

\* ---- the store outside the views -----------------------------------------
\* A Category row is deleted (admin); Post.category is on_delete=SET_NULL.
DeleteCategory(slug) ==
    /\ slug \in DOMAIN categories
    /\ categories' = [s \in DOMAIN categories \ {slug} |-> categories[s]]
    /\ posts' = [p \in DOMAIN posts |->
                    IF posts[p].category = slug
                    THEN [posts[p] EXCEPT !.category = Null]
                    ELSE posts[p]]
    /\ response' = NoResponse
    /\ UNCHANGED <<users, locations, comments, nextPostPk, nextCommentPk, now>>

\* Time passes.
Tick ==
    /\ now < MaxTime
    /\ now' = now + 1
    /\ response' = NoResponse
    /\ UNCHANGED store

\* The store under the post views: posts are created, categories deleted,
\* time passes, and the detail page and the three listings are requested.
Next ==
    \/ \E u \in Actors, b \in BOOLEAN, d \in PubDates, c \in Slugs : CreatePost(u, b, d, c, Null)
    \/ \E s \in Slugs : DeleteCategory(s)
    \/ Tick
    \/ \E u \in Actors, p \in PostPks : PostDetail(u, p)
    \/ \E u \in Actors, g \in PageParams : Index(u, g)
    \/ \E u \in Actors, s \in Slugs, g \in PageParams : CategoryPosts(u, s, g)
    \/ \E u \in Actors, n \in Usernames, g \in PageParams : ProfileView(u, n, g)

Spec == Init /\ [][Next]_vars

\* The store under the owner-only views: posts and comments are created,
\* edited and deleted.
MutNext ==
    \/ \E u \in Actors, b \in BOOLEAN : CreatePost(u, b, 1, "c1", Null)
    \/ \E u \in Actors, p \in PostPks, b \in BOOLEAN : EditPost(u, p, b, 1, "c1", Null)
    \/ \E u \in Actors, p \in PostPks : DeletePost(u, p)
    \/ \E u \in Actors, p \in PostPks, t \in Texts : AddComment(u, p, t)
    \/ \E u \in Actors, p \in PostPks, c \in CommentPks, t \in Texts : EditComment(u, p, c, t)
    \/ \E u \in Actors, p \in PostPks, c \in CommentPks : DeleteComment(u, p, c)

MutSpec == Init /\ [][MutNext]_vars

\* The listings over a long table: n posts of u1 in the published category
\* c1, every h-th one unpublished, none scheduled for later.
HiddenEvery == {0, 3}

PageInit ==
    \E n \in 0..MaxN, h \in HiddenEvery :
        /\ users = Users
        /\ locations = Locations
        /\ categories = [s \in Slugs |-> [is_published |-> (s = "c1")]]
        /\ posts = [i \in 1..n |->
                      PostRow("u1", h = 0 \/ i % h # 0, 1 + (i % MaxTime), "c1", Null)]
        /\ comments = NoRows
        /\ nextPostPk = n + 1
        /\ nextCommentPk = 1
        /\ now = MaxTime
        /\ response = NoResponse

PageNext ==
    \/ \E u \in {"u1", Anon}, g \in PageParamsWide : Index(u, g)
    \/ \E u \in {"u1", Anon}, g \in PageParamsWide : CategoryPosts(u, "c1", g)
    \/ \E u \in {"u1", Anon}, g \in PageParamsWide : ProfileView(u, "u1", g)

PageSpec == PageInit /\ [][PageNext]_vars

\* ==== properties ==========================================================
Range(f) == {f[i] : i \in DOMAIN f}

\* The public-visibility conditions of the Visibility Policy.
PubliclyVisible(p) ==
    /\ posts[p].is_published
    /\ posts[p].pub_date <= now
    /\ posts[p].category # Null
    /\ categories[posts[p].category].is_published

\* The page parameter is absent or names an existing page of an n-item list.
PageInRange(page, n) ==
    \/ page = <<>>
    \/ /\ IsInt(page)
       /\ DecimalValue(page) >= 1
       /\ DecimalValue(page) * paginate_by - paginate_by < (IF n = 0 THEN 1 ELSE n)

\* C1: the author of a post may always view it: check_post_visibility is true
\* and the detail view returns the post, whatever is_published, pub_date and
\* the category (published, unpublished, null) are.
C1_AuthorAlwaysViews ==
    /\ \A p \in DOMAIN posts :
          /\ check_post_visibility(posts[p], posts[p].author) = "True"
          /\ PostDetail_get_object(posts[p].author, p) = "OK"
    /\ (/\ response.view = "PostDetail"
        /\ PostExists(response.post_pk)
        /\ response.actor = posts[response.post_pk].author)
       => (response.kind = "OK" /\ response.target = response.post_pk)

C1_Witness ==
    /\ response.view = "PostDetail"
    /\ response.kind = "OK"
    /\ PostExists(response.post_pk)
    /\ response.actor = posts[response.post_pk].author
    /\ ~posts[response.post_pk].is_published
    /\ posts[response.post_pk].pub_date > now
    /\ posts[response.post_pk].category = Null

\* C2: for an existing post with a category and an actor who is not its
\* author, the detail view returns the post exactly when the post is
\* published, its pub_date is not after now and its category is published;
\* otherwise the outcome is NotFound, as it is for a pk that names no post.
C2_DetailIffPubliclyVisible ==
    /\ \A p \in DOMAIN posts, a \in Actors :
          (posts[p].category # Null /\ a # posts[p].author)
          => PostDetail_get_object(a, p) = (IF PubliclyVisible(p) THEN "OK" ELSE "NotFound")
    /\ \A p \in PostPks \ DOMAIN posts, a \in Actors :
          PostDetail_get_object(a, p) = "NotFound"
    /\ response.view = "PostDetail"
       => IF ~PostExists(response.post_pk)
          THEN response.kind = "NotFound" /\ response.target = 0
          ELSE (/\ posts[response.post_pk].category # Null
                /\ response.actor # posts[response.post_pk].author)
               => IF PubliclyVisible(response.post_pk)
                  THEN response.kind = "OK" /\ response.target = response.post_pk
                  ELSE response.kind = "NotFound" /\ response.target = 0

C2_Witness ==
    /\ response.view = "PostDetail"
    /\ response.actor = Anon
    /\ PostExists(response.post_pk)
    /\ posts[response.post_pk].pub_date = now
    /\ PubliclyVisible(response.post_pk)
    /\ response.kind = "OK"

\* C3: a post without a category is hidden from everyone but its author:
\* the detail view answers NotFound and nothing else.
C3_NullCategoryNotFound ==
    (/\ response.view = "PostDetail"
     /\ PostExists(response.post_pk)
     /\ posts[response.post_pk].category = Null
     /\ response.actor # posts[response.post_pk].author)
    => response.kind = "NotFound"

\* canMutate of the Authorization Policy, for the resource a request names.
PostViews == {"EditPost", "DeletePost"}
CommentViews == {"EditComment", "DeleteComment"}

ResourceExists(r) ==
    IF r.view \in PostViews THEN PostExists(r.post_pk)
    ELSE CommentExists(r.post_pk, r.comment_pk)

ResourceAuthor(r) ==
    IF r.view \in PostViews THEN posts[r.post_pk].author
    ELSE comments[r.comment_pk].author

canMutate(r) == r.actor \in Users /\ r.actor = ResourceAuthor(r)

\* C4: edit post, delete post, edit comment and delete comment answer a
\* request on an existing resource the actor may not mutate with a redirect
\* to the detail page of the post concerned.
C4_DenialRedirectsToDetail ==
    (/\ response.view \in PostViews \cup CommentViews
     /\ ResourceExists(response)
     /\ ~canMutate(response))
    => (response.kind = "RedirectDetail" /\ response.target = response.post_pk)

\* C5: an edit or delete request whose actor is anonymous or not the author
\* of the resource it names changes nothing in the store; a post is changed
\* or deleted, and a comment changed or deleted on its own, only by a
\* request of its author.
C5_OnlyAuthorMutates ==
    [][response'.view \in PostViews \cup CommentViews
       => /\ ~(ResourceExists(response') /\ canMutate(response')) => UNCHANGED store
          /\ \A p \in DOMAIN posts :
                (p \notin DOMAIN posts' \/ posts'[p] # posts[p])
                => response'.actor = posts[p].author
          /\ \A c \in DOMAIN comments :
                (\/ c \in DOMAIN comments' /\ comments'[c] # comments[c]
                 \/ c \notin DOMAIN comments' /\ comments[c].post \in DOMAIN posts')
                => response'.actor = comments[c].author]_vars

C5_Witness ==
    /\ response.view = "EditComment"
    /\ response.kind = "Forbidden"
    /\ response.actor \in Users
    /\ CommentExists(response.post_pk, response.comment_pk)
    /\ comments[response.comment_pk].author # response.actor

\* The posts a listing shows on all its pages together.
RECURSIVE PagesFrom(_, _)
PagesFrom(list, k) ==
    IF k > num_pages(Len(list), paginate_by) THEN <<>>
    ELSE page_items(list, k, paginate_by) \o PagesFrom(list, k + 1)

AllPages(list) == PagesFrom(list, 1)

\* C6: for every actor, the index lists over all its pages exactly the posts
\* that are published, not dated after now and filed under a published
\* category; a post without category, in an unpublished category, unpublished
\* or dated in the future is never on the index.
C6_IndexIsPublicSet ==
    /\ Range(AllPages(Index_get_queryset)) = {p \in DOMAIN posts : PubliclyVisible(p)}
    /\ response.view = "Index"
       => /\ PageInRange(response.page, Len(Index_get_queryset)) => response.kind = "OK"
          /\ \A p \in Range(response.items) : p \in DOMAIN posts /\ PubliclyVisible(p)
          /\ (response.kind = "OK" /\ response.num_pages = 1)
             => Range(response.items) = {p \in DOMAIN posts : PubliclyVisible(p)}

C6_Witness ==
    /\ response.view = "Index"
    /\ response.kind = "OK"
    /\ response.actor \in Users
    /\ response.items # <<>>
    /\ \E p \in DOMAIN posts :
          /\ posts[p].author = response.actor
          /\ posts[p].is_published
          /\ posts[p].pub_date <= now
          /\ posts[p].category = Null
          /\ p \notin Range(response.items)

\* C7: the profile listing is NotFound for an unknown username; the profile
\* owner is shown all of their posts; anyone else is shown exactly the
\* owner's publicly visible posts, so every post shown to a non-owner is one
\* that check_post_visibility lets them view.
C7_ProfileShowsViewablePosts ==
    response.view = "ProfileView"
    => IF response.name \notin Users THEN response.kind = "NotFound"
       ELSE LET own == {p \in DOMAIN posts : posts[p].author = response.name}
            IN  (response.kind = "OK" /\ response.num_pages = 1)
                => IF response.actor = response.name
                   THEN Range(response.items) = own
                   ELSE /\ Range(response.items) = {p \in own : PubliclyVisible(p)}
                        /\ \A p \in Range(response.items) :
                              check_post_visibility(posts[p], response.actor) = "True"

\* C8: the category listing is NotFound, with one and the same answer, when
\* no category has the slug and when the category is unpublished; otherwise
\* it lists exactly the category's posts that are published and not dated
\* after now, and no post of another category.
C8_CategoryListing ==
    /\ \A s \in Slugs :
          Range(AllPages(CategoryPosts_get_queryset(s))) =
              {p \in DOMAIN posts : /\ posts[p].category = s
                                    /\ posts[p].is_published
                                    /\ posts[p].pub_date <= now}
    /\ response.view = "CategoryPosts"
       => IF response.name \notin DOMAIN categories \/ ~categories[response.name].is_published
          THEN response = Resp("CategoryPosts", response.actor, 0, 0, response.name,
                               response.page, "NotFound", 0, <<>>, 0, 0)
          ELSE /\ PageInRange(response.page, Len(CategoryPosts_get_queryset(response.name)))
                  => response.kind = "OK"
               /\ \A p \in Range(response.items) :
                     /\ p \in DOMAIN posts
                     /\ posts[p].category = response.name
                     /\ posts[p].is_published
                     /\ posts[p].pub_date <= now
               /\ (response.kind = "OK" /\ response.num_pages = 1)
                  => Range(response.items) =
                        {p \in DOMAIN posts : /\ posts[p].category = response.name
                                              /\ posts[p].is_published
                                              /\ posts[p].pub_date <= now}

C8_Witness ==
    /\ response.view = "CategoryPosts"
    /\ response.kind = "NotFound"
    /\ response.page = <<>>
    /\ response.name \in DOMAIN categories
    /\ ~categories[response.name].is_published
    /\ \E p \in DOMAIN posts :
          /\ posts[p].category = response.name
          /\ posts[p].is_published
          /\ posts[p].pub_date <= now

\* The queryset behind a listing response.
ListViews == {"Index", "CategoryPosts", "ProfileView"}

ListFound(r) ==
    CASE r.view = "Index" -> TRUE
      [] r.view = "CategoryPosts" ->
            r.name \in DOMAIN categories /\ categories[r.name].is_published
      [] r.view = "ProfileView" -> r.name \in Users

QuerysetOf(r) ==
    CASE r.view = "Index" -> Index_get_queryset
      [] r.view = "CategoryPosts" -> CategoryPosts_get_queryset(r.name)
      [] r.view = "ProfileView" -> ProfileView_get_queryset(r.actor, r.name)

\* max(1, ceil(n / size)), as the least k >= 1 with k * size >= n.
CeilPages(n, size) ==
    CHOOSE k \in 1..(n + 1) : k * size >= n /\ (k = 1 \/ (k - 1) * size < n)

\* C9: on every listing, a page parameter that is no integer gives page 1, a
\* page number beyond the last page gives the last page, and neither ever
\* gives an error outcome.
C9_PageParameterClamped ==
    (response.view \in ListViews /\ ListFound(response))
    => /\ response.kind = "OK"
       /\ ~IsInt(response.page)
          => /\ response.number = 1
             /\ response.items = page_items(QuerysetOf(response), 1, paginate_by)
       /\ (IsInt(response.page) /\ DecimalValue(response.page) > response.num_pages)
          => response.number = response.num_pages

\* C10: pages hold 10 posts: a listing of n posts has max(1, ceil(n / 10))
\* pages, every page but the last holds exactly 10 posts, the last holds the
\* rest, and the pages in order hold every listed post exactly once.
C10_PagesOfTen ==
    /\ paginate_by = 10
    /\ \A u \in Actors :
          LET list == ProfileView_get_queryset(u, "u1")
              n    == Len(list)
              last == CeilPages(n, 10)
          IN  /\ num_pages(n, paginate_by) = last
              /\ \A k \in 1..(last - 1) : Len(page_items(list, k, paginate_by)) = 10
              /\ Len(page_items(list, last, paginate_by)) = n - 10 * (last - 1)
              /\ AllPages(list) = list
              /\ Cardinality(Range(list)) = n
    /\ (response.view \in ListViews /\ response.kind = "OK")
       => LET list == QuerysetOf(response)
              n    == Len(list)
          IN  /\ response.num_pages = CeilPages(n, 10)
              /\ response.number \in 1..response.num_pages
              /\ Len(response.items) =
                    (IF response.number < response.num_pages THEN 10
                     ELSE n - 10 * (response.num_pages - 1))
              /\ \A i \in 1..Len(response.items) :
                    response.items[i] = list[10 * (response.number - 1) + i]

C10_Witness ==
    /\ response.view = "CategoryPosts"
    /\ response.kind = "OK"
    /\ Len(CategoryPosts_get_queryset(response.name)) = 11
    /\ response.number = 2
    /\ response.num_pages = 2
    /\ Len(response.items) = 1

\* The pub_dates of a list of posts, in the order of the list.
DatesOf(list) == [i \in 1..Len(list) |-> posts[list[i]].pub_date]

\* The querysets of the three listings, for every viewer of the profile.
Listings ==
    {Index_get_queryset}
    \cup {CategoryPosts_get_queryset(s) : s \in Slugs}
    \cup {ProfileView_get_queryset(u, n) : u \in Actors, n \in Users}

\* C11 as stated: the items of a listing are in strictly descending pub_date
\* order within a page, and the last item of a page is not older than the
\* first item of the next page.
C11_StrictlyDescending ==
    /\ \A list \in Listings :
          /\ \A k \in 1..(num_pages(Len(list), paginate_by) - 1) :
                LET d == DatesOf(page_items(list, k, paginate_by))
                    e == DatesOf(page_items(list, k + 1, paginate_by))
                IN  d[Len(d)] >= e[1]
    /\ (response.view \in ListViews /\ response.kind = "OK")
       => LET d == DatesOf(response.items)
          IN  \A i \in 1..(Len(d) - 1) : d[i] > d[i + 1]

\* C11, amended: the items of a listing are in descending pub_date order,
\* posts of equal pub_date next to each other: no item is older than an item
\* after it, within a page and from each page to the next.
C11_Descending ==
    /\ \A list \in Listings :
          /\ LET d == DatesOf(list)
             IN  \A i \in 1..Len(d), j \in 1..Len(d) : i < j => d[i] >= d[j]
          /\ \A k \in 1..(num_pages(Len(list), paginate_by) - 1) :
                LET d == DatesOf(page_items(list, k, paginate_by))
                    e == DatesOf(page_items(list, k + 1, paginate_by))
                IN  d[Len(d)] >= e[1]
    /\ (response.view \in ListViews /\ response.kind = "OK")
       => LET d == DatesOf(response.items)
          IN  \A i \in 1..(Len(d) - 1) : d[i] >= d[i + 1]

C11_Witness ==
    /\ response.view = "Index"
    /\ response.kind = "OK"
    /\ response.number = 2
    /\ Len(response.items) >= 2
    /\ \E i \in 1..(Len(response.items) - 1) :
          posts[response.items[i]].pub_date = posts[response.items[i + 1]].pub_date
    /\ \E i \in 1..(Len(response.items) - 1) :
          posts[response.items[i]].pub_date > posts[response.items[i + 1]].pub_date

\* ---- rows created and deleted outside the post views --------------------
\* RegistrationView: a User row for a username not yet taken.
Register(username) ==
    /\ username \notin users
    /\ users' = users \cup {username}
    /\ response' = Resp("Registration", Anon, 0, 0, username, <<>>, AfterSuccess,
                        0, <<>>, 0, 0)
    /\ UNCHANGED <<categories, locations, posts, comments, nextPostPk, nextCommentPk, now>>

\* A User row is deleted; Post.author and Comments.author are
\* on_delete=CASCADE, and so is Comments.post for the posts that go.
DeleteUser_KeepsCommentsOnPosts(username) ==
    /\ username \in users
    /\ users' = users \ {username}
    /\ posts' = [p \in {q \in DOMAIN posts : posts[q].author # username} |-> posts[p]]
    /\ comments' = [c \in {d \in DOMAIN comments : comments[d].author # username} |->
                      comments[c]]
    /\ response' = NoResponse
    /\ UNCHANGED <<categories, locations, nextPostPk, nextCommentPk, now>>

DeleteUser(username) ==
    /\ username \in users
    /\ users' = users \ {username}
    /\ posts' = [p \in {q \in DOMAIN posts : posts[q].author # username} |-> posts[p]]
    /\ comments' = [c \in {d \in DOMAIN comments :
                              /\ comments[d].author # username
                              /\ posts[comments[d].post].author # username} |->
                      comments[c]]
    /\ response' = NoResponse
    /\ UNCHANGED <<categories, locations, nextPostPk, nextCommentPk, now>>

\* CategoryAdmin: a Category row with a new slug.
CreateCategory(slug, is_published) ==
    /\ slug \notin DOMAIN categories
    /\ categories' = [s \in DOMAIN categories \cup {slug} |->
                        IF s = slug THEN [is_published |-> is_published]
                        ELSE categories[s]]
    /\ response' = NoResponse
    /\ UNCHANGED <<users, locations, posts, comments, nextPostPk, nextCommentPk, now>>

\* LocationAdmin: a Location row is added.
CreateLocation(name) ==
    /\ name \notin locations
    /\ locations' = locations \cup {name}
    /\ response' = NoResponse
    /\ UNCHANGED <<users, categories, posts, comments, nextPostPk, nextCommentPk, now>>

\* A Location row is deleted; Post.location is on_delete=SET_NULL.
DeleteLocation(name) ==
    /\ name \in locations
    /\ locations' = locations \ {name}
    /\ posts' = [p \in DOMAIN posts |->
                    IF posts[p].location = name
                    THEN [posts[p] EXCEPT !.location = Null]
                    ELSE posts[p]]
    /\ response' = NoResponse
    /\ UNCHANGED <<users, categories, comments, nextPostPk, nextCommentPk, now>>

\* The store under creation and deletion of rows of all five tables.
DelNext ==
    \/ \E n \in Users : Register(n)
    \/ \E n \in Users : DeleteUser(n)
    \/ CreateCategory("c1", TRUE)
    \/ \E s \in Slugs : DeleteCategory(s)
    \/ \E l \in Locations : CreateLocation(l)
    \/ \E l \in Locations : DeleteLocation(l)
    \/ \E u \in Users, l \in Locations \cup {Null} : CreatePost(u, TRUE, 1, "c1", l)
    \/ \E u \in Users, p \in PostPks : DeletePost(u, p)
    \/ \E u \in Users, p \in PostPks : AddComment(u, p, "t1")
    \/ \E u \in Users, p \in PostPks, c \in CommentPks : DeleteComment(u, p, c)

DelSpec == Init /\ [][DelNext]_vars

\* Every reference held by a stored row names a stored row (or is null).
ReferencesResolve ==
    /\ \A c \in DOMAIN comments :
          comments[c].post \in DOMAIN posts /\ comments[c].author \in users
    /\ \A p \in DOMAIN posts :
          /\ posts[p].author \in users
          /\ posts[p].category \in DOMAIN categories \cup {Null}
          /\ posts[p].location \in locations \cup {Null}

\* What one step that deletes rows does to the other tables.
DeletionCascades ==
    /\ \A p \in DOMAIN posts \ DOMAIN posts' :
          \A c \in DOMAIN comments : comments[c].post = p => c \notin DOMAIN comments'
    /\ \A u \in users \ users' :
          /\ \A p \in DOMAIN posts : posts[p].author = u => p \notin DOMAIN posts'
          /\ \A c \in DOMAIN comments :
                (comments[c].author = u \/ posts[comments[c].post].author = u)
                => c \notin DOMAIN comments'
    /\ (DOMAIN categories' # DOMAIN categories \/ locations' # locations)
       => /\ DOMAIN posts' = DOMAIN posts
          /\ comments' = comments
          /\ \A p \in DOMAIN posts :
                posts'[p] = [posts[p] EXCEPT
                    !.category = IF posts[p].category \in DOMAIN categories'
                                 THEN posts[p].category ELSE Null,
                    !.location = IF posts[p].location \in locations'
                                 THEN posts[p].location ELSE Null]

\* C12: after any creations and deletions of users, categories, locations,
\* posts and comments, every comment names a stored post and a stored
\* author and every post a stored author; the comments of a deleted post go
\* with it, the posts and comments of a deleted user (and the comments on
\* those posts) go with the user, and deleting a category or a location
\* deletes no post and only sets the posts' reference to null.
C12_CascadesKeepReferences == []ReferencesResolve /\ [][DeletionCascades]_vars

C12_Witness ==
    /\ response = NoResponse
    /\ Cardinality(users) = 1
    /\ nextPostPk > 2
    /\ nextCommentPk > 1
    /\ comments = NoRows
    /\ Cardinality(DOMAIN posts) = 1
    /\ \A p \in DOMAIN posts :
          /\ posts[p].author \in users
          /\ posts[p].category = Null
          /\ posts[p].location = Null

\* C13: add-comment tests authentication and the existence of the post, not
\* its visibility: an anonymous request is sent to the login page and a
\* request for an unknown post is NotFound, both without a change; every
\* other request adds exactly one comment, of the actor, on that post, even
\* when the actor may not view the post.
C13_AddCommentIgnoresVisibility ==
    [][response'.view = "AddComment"
       => IF response'.actor \notin users
          THEN response'.kind = "RedirectLogin" /\ UNCHANGED store
          ELSE IF response'.post_pk \notin DOMAIN posts
          THEN response'.kind = "NotFound" /\ UNCHANGED store
          ELSE /\ response'.comment_pk \notin DOMAIN comments
               /\ DOMAIN comments' = DOMAIN comments \cup {response'.comment_pk}
               /\ comments'[response'.comment_pk].author = response'.actor
               /\ comments'[response'.comment_pk].post = response'.post_pk
               /\ \A c \in DOMAIN comments : comments'[c] = comments[c]
               /\ UNCHANGED <<users, categories, locations, posts>>]_vars

C13_Witness ==
    /\ response.view = "AddComment"
    /\ response.kind = AfterSuccess
    /\ PostExists(response.post_pk)
    /\ posts[response.post_pk].author # response.actor
    /\ ~posts[response.post_pk].is_published
    /\ check_post_visibility(posts[response.post_pk], response.actor) = "False"
    /\ CommentExists(response.post_pk, response.comment_pk)
    /\ comments[response.comment_pk].author = response.actor

====
